---------------------------- MODULE Spec2Model ----------------------------
(***************************************************************************)
(* Model of the fuel-stop planner of server/routing:                       *)
(*   - compute_fuel_plan (fuel_optimizer.py), one action per loop step;    *)
(*   - the lazily built station catalog and spatial index (fuel_data.py),  *)
(*     one action per step of a request thread;                            *)
(*   - the vertex sampling loop of station_indices_near_route;             *)
(*   - _project_station_onto_route, one action per polyline segment.       *)
(* Distances are whole miles, prices are cents per gallon.  All modelled   *)
(* distances are multiples of mpg, so gallons = miles / mpg is exact.      *)
(***************************************************************************)
EXTENDS Integers, Sequences, FiniteSets

VARIABLES
    \* ---- compute_fuel_plan ----
    route,                \* RouteInfo: [distance_miles]
    vehicle_range_miles,  \* tank size in miles
    candidates,           \* result of _stations_along_route: sorted by dist
    stops,                \* list of FuelStopPlan
    current_pos,
    fuel_in_tank_miles,
    idx,                  \* number of candidates the scan cursor has passed
    iterations,           \* passes of the while body started so far (bookkeeping)
    cheapest,             \* index of the station selected in this iteration
    pc,                   \* "start", "loop", "fill", "done", "off"
    outcome,              \* how the function returned
    \* ---- load_fuel_stations / _ensure_spatial_index ----
    cache,                \* lru_cache(maxsize=1) entry: 0 = empty, else object id
    station_coords_rad,   \* 0 = None, else id of the catalog it was built from
    tpc,                  \* per thread: position in the request
    ret,                  \* per thread: where load_fuel_stations returns to
    result,               \* per thread: object built by the running body
    observed,             \* per thread: catalog object returned to the view
    body_runs,            \* executions of the body of load_fuel_stations
    index_builds,         \* executions of the building loop of the index
    \* ---- station_indices_near_route ----
    n,                    \* len(route_geometry)
    step,
    i,
    queries,              \* calls of station_indices_within_radius
    spc,                  \* "start", "sample", "done", "off"
    \* ---- _build_route_distances / _project_station_onto_route ----
    station_dist,         \* haversine miles from the station to each vertex
    segment_len,          \* haversine miles between consecutive vertices
    cum_dists,
    best_along,
    best_off,
    seg_i,                \* the loop variable i
    jpc                   \* "start", "scan", "done", "off"

pvars == <<route, vehicle_range_miles, candidates, stops, current_pos,
           fuel_in_tank_miles, idx, iterations, cheapest, pc, outcome>>
cvars == <<cache, station_coords_rad, tpc, ret, result, observed,
           body_runs, index_builds>>
svars == <<n, step, i, queries, spc>>
jvars == <<station_dist, segment_len, cum_dists, best_along, best_off, seg_i, jpc>>
vars == <<pvars, cvars, svars, jvars>>

\* --------------------------------------------------------------- bounds
MaxCands == 3
NumThreads == 2
MaxPolylineLen == 300
MaxVertices == 4

Ranges == {400, 500}
RouteDistances == {0, 100, 400, 600, 700, 1000, 1500}
CandDists == {0, 100, 150, 300, 400, 600, 800, 1100}
Prices == {300, 350, 400}
OffDists == {0, 1, 2, 3}
SegLens == {0, 1, 2, 3}

\* ------------------------------------------------------------ constants
mpg == 10
EpsDenominator == 1000000

Max(a, b) == IF a >= b THEN a ELSE b
Min(a, b) == IF a <= b THEN a ELSE b

\* x > 1e-6
ExceedsEps(x) == x * EpsDenominator > 1

Station == [dist : CandDists, price : Prices]

\* results.sort(key=lambda x: x[1])
IsSortedByDist(s) == \A k \in 1..(Len(s) - 1) : s[k].dist <= s[k + 1].dist

CandidateLists ==
    UNION { {s \in [1..len -> Station] : IsSortedByDist(s)} : len \in 0..MaxCands }

\* ------------------------------------------------- compute_fuel_plan
route_distance_km == (route.distance_miles * 8) \div 5
route_distance == route.distance_miles

max_reach == current_pos + vehicle_range_miles

ScanEndUnbounded(j) == Len(candidates)

\* the cursor after `while idx < len(candidates) and candidates[idx][1] <= max_reach`
RECURSIVE ScanEnd(_)
ScanEnd(j) ==
    IF j < Len(candidates) /\ candidates[j + 1].dist <= max_reach
    THEN ScanEnd(j + 1)
    ELSE j

ReachableIgnoringCursor ==
    {k \in 1..ScanEnd(idx) : candidates[k].dist >= current_pos}

\* the candidates the scan appends to `reachable`
Reachable ==
    {k \in (idx + 1)..ScanEnd(idx) : candidates[k].dist >= current_pos}

NearestOf(S) == CHOOSE k \in S : \A j \in S : k <= j

\* min(reachable, key=price): the first element of least price
CheapestOf(S) ==
    CHOOSE k \in S : \A j \in S :
        \/ candidates[k].price < candidates[j].price
        \/ candidates[k].price = candidates[j].price /\ k <= j

max_from_here == current_pos + vehicle_range_miles

cheaper_or_equal_within_range ==
    {k \in 1..Len(candidates) :
        /\ current_pos < candidates[k].dist
        /\ candidates[k].dist <= max_from_here
        /\ candidates[k].price <= candidates[cheapest].price}
cheaper_within_range ==
    {k \in 1..Len(candidates) :
        /\ current_pos < candidates[k].dist
        /\ candidates[k].dist <= max_from_here
        /\ candidates[k].price < candidates[cheapest].price}

\* min(cheaper_within_range, key=dist): the first element of least distance
next_cheaper ==
    CHOOSE k \in cheaper_within_range : \A j \in cheaper_within_range :
        \/ candidates[k].dist < candidates[j].dist
        \/ candidates[k].dist = candidates[j].dist /\ k <= j

distance_needed_unclamped ==
    IF cheaper_within_range # {}
    THEN Max(0, candidates[next_cheaper].dist - current_pos)
    ELSE vehicle_range_miles
distance_needed ==
    LET d == IF cheaper_within_range # {}
             THEN Max(0, candidates[next_cheaper].dist - current_pos)
             ELSE vehicle_range_miles
    IN Min(d, route_distance - current_pos)

additional_needed_ignoring_tank == Max(0, distance_needed)
additional_needed == Max(0, distance_needed - fuel_in_tank_miles)

finish_needed_ignoring_tank == Max(0, route_distance - current_pos)
\* distance_needed of the branch that can reach the destination
finish_needed == Max(0, route_distance - current_pos - fuel_in_tank_miles)

FuelStopPlanRemaining(k, pos, miles) ==
    [station |-> k,
     distance_along_route_miles |-> route_distance - pos,
     gallons_purchased |-> miles \div mpg,
     cost_usd |-> (miles \div mpg) * candidates[k].price]
FuelStopPlanAtMaxReach(k, pos, miles) ==
    [station |-> k,
     distance_along_route_miles |-> pos + vehicle_range_miles,
     gallons_purchased |-> miles \div mpg,
     cost_usd |-> (miles \div mpg) * candidates[k].price]
FuelStopPlan(k, pos, miles) ==
    [station |-> k,
     distance_along_route_miles |-> pos,
     gallons_purchased |-> miles \div mpg,
     cost_usd |-> (miles \div mpg) * candidates[k].price]

PlannerInit ==
    /\ route \in [distance_miles : RouteDistances]
    /\ vehicle_range_miles \in Ranges
    /\ candidates \in CandidateLists
    /\ stops = <<>>
    /\ current_pos = 0
    /\ fuel_in_tank_miles = vehicle_range_miles
    /\ idx = 0
    /\ iterations = 0
    /\ cheapest = 0
    /\ pc = "start"
    /\ outcome = "running"

PlannerOff ==
    /\ route = [distance_miles |-> 0]
    /\ vehicle_range_miles = 0
    /\ candidates = <<>>
    /\ stops = <<>>
    /\ current_pos = 0
    /\ fuel_in_tank_miles = 0
    /\ idx = 0
    /\ iterations = 0
    /\ cheapest = 0
    /\ pc = "off"
    /\ outcome = "off"

Return(how) == pc' = "done" /\ outcome' = how

\* if not candidates: return []
NoCandidates ==
    /\ pc = "start"
    /\ candidates = <<>>
    /\ Return("no_candidates")
    /\ UNCHANGED <<route, vehicle_range_miles, candidates, stops, current_pos,
                   fuel_in_tank_miles, idx, cheapest>>
    /\ UNCHANGED iterations
    /\ UNCHANGED <<cvars, svars, jvars>>

Begin ==
    /\ pc = "start"
    /\ candidates # <<>>
    /\ stops' = <<>>
    /\ current_pos' = 0
    /\ fuel_in_tank_miles' = vehicle_range_miles
    /\ idx' = 0
    /\ pc' = "loop"
    /\ UNCHANGED <<route, vehicle_range_miles, candidates, cheapest, outcome>>
    /\ iterations' = 0
    /\ UNCHANGED <<cvars, svars, jvars>>

\* while current_pos < route_distance: (condition false)
LoopExit ==
    /\ pc = "loop"
    /\ ~(current_pos < route_distance)
    /\ Return("loop_exit")
    /\ UNCHANGED <<route, vehicle_range_miles, candidates, stops, current_pos,
                   fuel_in_tank_miles, idx, cheapest>>
    /\ UNCHANGED iterations
    /\ UNCHANGED <<cvars, svars, jvars>>

\* max_reach >= route_distance, and a top-up is recorded at the last station
ArriveBuy ==
    /\ pc = "loop"
    /\ current_pos < route_distance
    /\ max_reach >= route_distance
    /\ ExceedsEps(finish_needed)
    /\ stops # <<>>
    /\ stops' = Append(stops,
           FuelStopPlan(stops[Len(stops)].station, current_pos, finish_needed))
    /\ Return("arrived")
    /\ UNCHANGED <<route, vehicle_range_miles, candidates, current_pos,
                   fuel_in_tank_miles, idx, cheapest>>
    /\ iterations' = iterations + 1
    /\ UNCHANGED <<cvars, svars, jvars>>

\* max_reach >= route_distance, nothing recorded
ArriveCoast ==
    /\ pc = "loop"
    /\ current_pos < route_distance
    /\ max_reach >= route_distance
    /\ ~(ExceedsEps(finish_needed) /\ stops # <<>>)
    /\ Return("arrived")
    /\ UNCHANGED <<route, vehicle_range_miles, candidates, stops, current_pos,
                   fuel_in_tank_miles, idx, cheapest>>
    /\ iterations' = iterations + 1
    /\ UNCHANGED <<cvars, svars, jvars>>

\* if not reachable: break
Stranded ==
    /\ pc = "loop"
    /\ current_pos < route_distance
    /\ max_reach < route_distance
    /\ Reachable = {}
    /\ idx' = ScanEnd(idx)
    /\ Return("stranded")
    /\ UNCHANGED <<route, vehicle_range_miles, candidates, stops, current_pos,
                   fuel_in_tank_miles, cheapest>>
    /\ iterations' = iterations + 1
    /\ UNCHANGED <<cvars, svars, jvars>>

\* choose the cheapest reachable station and move to it
Select ==
    /\ pc = "loop"
    /\ current_pos < route_distance
    /\ max_reach < route_distance
    /\ Reachable # {}
    /\ LET c == CheapestOf(Reachable)
           cheapest_dist == candidates[c].dist
           distance_to_station == Max(0, cheapest_dist - current_pos)
       IN /\ cheapest' = c
          /\ fuel_in_tank_miles' = fuel_in_tank_miles - distance_to_station
          /\ current_pos' = cheapest_dist
    /\ idx' = ScanEnd(idx)
    /\ pc' = "fill"
    /\ UNCHANGED <<route, vehicle_range_miles, candidates, stops, outcome>>
    /\ iterations' = iterations + 1
    /\ UNCHANGED <<cvars, svars, jvars>>

\* if additional_needed <= 1e-6: continue
SkipPurchase ==
    /\ pc = "fill"
    /\ ~ExceedsEps(additional_needed)
    /\ pc' = "loop"
    /\ UNCHANGED <<route, vehicle_range_miles, candidates, stops, current_pos,
                   fuel_in_tank_miles, idx, cheapest, outcome>>
    /\ UNCHANGED iterations
    /\ UNCHANGED <<cvars, svars, jvars>>

Purchase ==
    /\ pc = "fill"
    /\ ExceedsEps(additional_needed)
    /\ fuel_in_tank_miles' = fuel_in_tank_miles + additional_needed
    /\ stops' = Append(stops, FuelStopPlan(cheapest, current_pos, additional_needed))
    /\ pc' = "loop"
    /\ UNCHANGED <<route, vehicle_range_miles, candidates, current_pos,
                   idx, cheapest, outcome>>
    /\ UNCHANGED iterations
    /\ UNCHANGED <<cvars, svars, jvars>>

PlannerNext ==
    \/ NoCandidates
    \/ Begin
    \/ LoopExit
    \/ ArriveBuy
    \/ ArriveCoast
    \/ Stranded
    \/ Select
    \/ SkipPurchase
    \/ Purchase

\* ------------------------ load_fuel_stations / _ensure_spatial_index
Threads == 1..NumThreads

CacheInit ==
    /\ cache = 0
    /\ station_coords_rad = 0
    /\ tpc = [t \in Threads |-> "view"]
    /\ ret = [t \in Threads |-> "none"]
    /\ result = [t \in Threads |-> 0]
    /\ observed = [t \in Threads |-> 0]
    /\ body_runs = 0
    /\ index_builds = 0

CacheOff ==
    /\ cache = 0
    /\ station_coords_rad = 0
    /\ tpc = [t \in Threads |-> "off"]
    /\ ret = [t \in Threads |-> "none"]
    /\ result = [t \in Threads |-> 0]
    /\ observed = [t \in Threads |-> 0]
    /\ body_runs = 0
    /\ index_builds = 0

\* stations = list(iter_fuel_stations()): the view calls load_fuel_stations
ViewCallsLoad(t) ==
    /\ tpc[t] = "view"
    /\ tpc' = [tpc EXCEPT ![t] = "lookup"]
    /\ ret' = [ret EXCEPT ![t] = "view_ret"]
    /\ UNCHANGED <<cache, station_coords_rad, result, observed, body_runs,
                   index_builds>>
    /\ UNCHANGED <<pvars, svars, jvars>>

\* lru_cache wrapper: the key is cached, the cached object is returned
CacheHit(t) ==
    /\ tpc[t] = "lookup"
    /\ cache # 0
    /\ result' = [result EXCEPT ![t] = cache]
    /\ tpc' = [tpc EXCEPT ![t] = ret[t]]
    /\ UNCHANGED <<cache, station_coords_rad, ret, observed, body_runs,
                   index_builds>>
    /\ UNCHANGED <<pvars, svars, jvars>>

\* lru_cache wrapper: the key is not cached, the wrapped function is called
CacheMiss(t) ==
    /\ tpc[t] = "lookup"
    /\ cache = 0
    /\ tpc' = [tpc EXCEPT ![t] = "body"]
    /\ UNCHANGED <<cache, station_coords_rad, ret, result, observed, body_runs,
                   index_builds>>
    /\ UNCHANGED <<pvars, svars, jvars>>

\* the body of load_fuel_stations reads the file and builds a new list
LoadBody(t) ==
    /\ tpc[t] = "body"
    /\ body_runs' = body_runs + 1
    /\ result' = [result EXCEPT ![t] = body_runs + 1]
    /\ tpc' = [tpc EXCEPT ![t] = "store"]
    /\ UNCHANGED <<cache, station_coords_rad, ret, observed, index_builds>>
    /\ UNCHANGED <<pvars, svars, jvars>>

\* lru_cache wrapper after the call: the result is stored unless the key was
\* added meanwhile; the caller gets the object its own call computed
CacheStore(t) ==
    /\ tpc[t] = "store"
    /\ cache' = IF cache = 0 THEN result[t] ELSE cache
    /\ tpc' = [tpc EXCEPT ![t] = ret[t]]
    /\ UNCHANGED <<station_coords_rad, ret, result, observed, body_runs,
                   index_builds>>
    /\ UNCHANGED <<pvars, svars, jvars>>

\* the view holds the catalog and goes on to compute_fuel_plan, which reaches
\* _ensure_spatial_index through station_indices_near_route
ViewReturn(t) ==
    /\ tpc[t] = "view_ret"
    /\ observed' = [observed EXCEPT ![t] = result[t]]
    /\ tpc' = [tpc EXCEPT ![t] = "ensure"]
    /\ UNCHANGED <<cache, station_coords_rad, ret, result, body_runs,
                   index_builds>>
    /\ UNCHANGED <<pvars, svars, jvars>>

\* if _station_coords_rad is not None: return
EnsureHasIndex(t) ==
    /\ tpc[t] = "ensure"
    /\ station_coords_rad # 0
    /\ tpc' = [tpc EXCEPT ![t] = "done"]
    /\ UNCHANGED <<cache, station_coords_rad, ret, result, observed, body_runs,
                   index_builds>>
    /\ UNCHANGED <<pvars, svars, jvars>>

\* stations = load_fuel_stations()
EnsureNoIndex(t) ==
    /\ tpc[t] = "ensure"
    /\ station_coords_rad = 0
    /\ tpc' = [tpc EXCEPT ![t] = "lookup"]
    /\ ret' = [ret EXCEPT ![t] = "build"]
    /\ UNCHANGED <<cache, station_coords_rad, result, observed, body_runs,
                   index_builds>>
    /\ UNCHANGED <<pvars, svars, jvars>>

\* for s in stations: coords.append(...)
BuildIndex(t) ==
    /\ tpc[t] = "build"
    /\ index_builds' = index_builds + 1
    /\ tpc' = [tpc EXCEPT ![t] = "assign"]
    /\ UNCHANGED <<cache, station_coords_rad, ret, result, observed, body_runs>>
    /\ UNCHANGED <<pvars, svars, jvars>>

\* _station_coords_rad = coords
AssignIndex(t) ==
    /\ tpc[t] = "assign"
    /\ station_coords_rad' = result[t]
    /\ tpc' = [tpc EXCEPT ![t] = "done"]
    /\ UNCHANGED <<cache, ret, result, observed, body_runs, index_builds>>
    /\ UNCHANGED <<pvars, svars, jvars>>

CacheNext ==
    \E t \in Threads :
        \/ ViewCallsLoad(t)
        \/ CacheHit(t)
        \/ CacheMiss(t)
        \/ LoadBody(t)
        \/ CacheStore(t)
        \/ ViewReturn(t)
        \/ EnsureHasIndex(t)
        \/ EnsureNoIndex(t)
        \/ BuildIndex(t)
        \/ AssignIndex(t)

\* ------------------------------------------ station_indices_near_route
SampleBudget == 150

PolylineLens == (0..MaxPolylineLen) \cup {10000}

\* step = max(1, n // 150)
SampleStep(len) == Max(1, len \div SampleBudget)

SampleInit ==
    /\ n \in PolylineLens
    /\ step = 0
    /\ i = 0
    /\ queries = 0
    /\ spc = "start"

SampleOff ==
    /\ n = 0
    /\ step = 0
    /\ i = 0
    /\ queries = 0
    /\ spc = "off"

\* if n == 0: return []
SampleEmpty ==
    /\ spc = "start"
    /\ n = 0
    /\ spc' = "done"
    /\ UNCHANGED <<n, step, i, queries>>
    /\ UNCHANGED <<pvars, cvars, jvars>>

SampleBegin ==
    /\ spc = "start"
    /\ n # 0
    /\ step' = SampleStep(n)
    /\ i' = 0
    /\ spc' = "sample"
    /\ UNCHANGED <<n, queries>>
    /\ UNCHANGED <<pvars, cvars, jvars>>

\* one iteration of `for i in range(0, n, step)`
SampleQuery ==
    /\ spc = "sample"
    /\ i < n
    /\ queries' = queries + 1
    /\ i' = i + step
    /\ UNCHANGED <<n, step, spc>>
    /\ UNCHANGED <<pvars, cvars, jvars>>

\* return sorted(idxs_set)
SampleEnd ==
    /\ spc = "sample"
    /\ i >= n
    /\ spc' = "done"
    /\ UNCHANGED <<n, step, i, queries>>
    /\ UNCHANGED <<pvars, cvars, jvars>>

SampleNext ==
    \/ SampleEmpty
    \/ SampleBegin
    \/ SampleQuery
    \/ SampleEnd

\* ------------------- _build_route_distances / _project_station_onto_route
\* float("inf")
Inf == -1

\* The haversine values are inputs: the distance from the station to each
\* vertex and the length of each segment, any values that obey the triangle
\* inequality on every segment.
Geometries ==
    UNION { { g \in [off : [1..nv -> OffDists], seg : [1..(nv - 1) -> SegLens]] :
                \A k \in 1..(nv - 1) :
                    /\ g.seg[k] <= g.off[k] + g.off[k + 1]
                    /\ g.off[k] <= g.off[k + 1] + g.seg[k]
                    /\ g.off[k + 1] <= g.off[k] + g.seg[k] }
            : nv \in 0..MaxVertices }

\* _build_route_distances: dists = [0.0], then one running total per segment
RECURSIVE BuildRouteDistances(_)
BuildRouteDistances(k) ==
    IF k = 0 THEN <<0>>
    ELSE LET prev == BuildRouteDistances(k - 1)
         IN Append(prev, prev[k] + segment_len[k])

IsBetterOrEqual(x) == best_off = Inf \/ x <= best_off
\* seg_best_off < best_off
IsBetter(x) == best_off = Inf \/ x < best_off

ProjectInit ==
    /\ \E g \in Geometries : station_dist = g.off /\ segment_len = g.seg
    /\ cum_dists = <<>>
    /\ best_along = 0
    /\ best_off = Inf
    /\ seg_i = 1
    /\ jpc = "start"

ProjectOff ==
    /\ station_dist = <<>>
    /\ segment_len = <<>>
    /\ cum_dists = <<>>
    /\ best_along = 0
    /\ best_off = Inf
    /\ seg_i = 1
    /\ jpc = "off"

\* cum = _build_route_distances(route); best_along = 0.0; best_off = inf
ProjectBegin ==
    /\ jpc = "start"
    /\ cum_dists' = BuildRouteDistances(Len(segment_len))
    /\ best_along' = 0
    /\ best_off' = Inf
    /\ seg_i' = 1
    /\ jpc' = "scan"
    /\ UNCHANGED <<station_dist, segment_len>>
    /\ UNCHANGED <<pvars, cvars, svars>>

\* one pass of `for i in range(1, len(pts))`: vertex a is pts[i - 1], b is
\* pts[i] (sequences here start at 1, so a is vertex seg_i and b is seg_i + 1)
ProjectSegment ==
    /\ jpc = "scan"
    /\ seg_i < Len(station_dist)
    /\ LET da == station_dist[seg_i]
           db == station_dist[seg_i + 1]
           seg_best_off == Min(da, db)
       IN IF IsBetter(seg_best_off)
          THEN /\ best_off' = seg_best_off
               /\ best_along' = cum_dists[seg_i + 1]
          ELSE UNCHANGED <<best_off, best_along>>
    /\ seg_i' = seg_i + 1
    /\ UNCHANGED <<station_dist, segment_len, cum_dists, jpc>>
    /\ UNCHANGED <<pvars, cvars, svars>>

\* return best_along, best_off
ProjectReturn ==
    /\ jpc = "scan"
    /\ ~(seg_i < Len(station_dist))
    /\ jpc' = "done"
    /\ UNCHANGED <<station_dist, segment_len, cum_dists, best_along, best_off, seg_i>>
    /\ UNCHANGED <<pvars, cvars, svars>>

ProjectNext ==
    \/ ProjectBegin
    \/ ProjectSegment
    \/ ProjectReturn

\* ------------------------------------------------------ specifications
Init == PlannerInit /\ CacheOff /\ SampleOff /\ ProjectOff
Next == PlannerNext
Spec == Init /\ [][Next]_vars

InitCache == PlannerOff /\ CacheInit /\ SampleOff /\ ProjectOff
NextCache == CacheNext
SpecCache == InitCache /\ [][NextCache]_vars

InitSample == PlannerOff /\ CacheOff /\ SampleInit /\ ProjectOff
NextSample == SampleNext
SpecSample == InitSample /\ [][NextSample]_vars

InitProject == PlannerOff /\ CacheOff /\ SampleOff /\ ProjectInit
NextProject == ProjectNext
SpecProject == InitProject /\ [][NextProject]_vars

\* ------------------------------------------------------------- claims

\* C1: whenever the route is no longer than the vehicle range, the plan holds
\* no stop, in every state of the planner and so in the plan it returns.
NoStopShortcut ==
    route.distance_miles <= vehicle_range_miles => stops = <<>>

NoStopShortcutWitness ==
    /\ pc = "done"
    /\ outcome = "arrived"
    /\ route.distance_miles = 100
    /\ vehicle_range_miles = 500
    /\ \E k \in 1..Len(candidates) : candidates[k].dist < route.distance_miles
    /\ stops = <<>>

\* C2: in every state of the planner loop the fuel in the tank, in miles, is
\* at most the vehicle range, also right after a purchase is recorded.
NeverOverbuy == fuel_in_tank_miles <= vehicle_range_miles

NeverOverbuyWitness ==
    /\ pc = "loop"
    /\ Len(stops) >= 2
    /\ fuel_in_tank_miles = vehicle_range_miles

\* C3: the along-route distances of the stops recorded so far never decrease
\* from one stop to the next.
MonotonicStops ==
    \A k \in 1..(Len(stops) - 1) :
        stops[k].distance_along_route_miles <= stops[k + 1].distance_along_route_miles

MonotonicStopsWitness ==
    /\ pc = "done"
    /\ Len(stops) >= 3
    /\ stops[1].distance_along_route_miles < stops[2].distance_along_route_miles
    /\ stops[2].distance_along_route_miles < stops[3].distance_along_route_miles

LookAheadScenario ==
    /\ vehicle_range_miles = 500
    /\ route.distance_miles = 700
    /\ candidates = <<[dist |-> 100, price |-> 400], [dist |-> 150, price |-> 300]>>

\* C4 as stated: in the look-ahead scenario the returned plan has two stops,
\* the first at mile 100 and the second at mile 150.
CheaperAheadTwoStops ==
    (LookAheadScenario /\ pc = "done") =>
        /\ Len(stops) = 2
        /\ stops[1].distance_along_route_miles = 100
        /\ stops[2].distance_along_route_miles = 150

\* C4 as amended: in the look-ahead scenario the returned plan has exactly one
\* stop, at the cheaper station at mile 150, where the tank is refilled (150
\* miles of fuel, 15 gallons); no stop is made at mile 100.
CheaperAheadSingleStop ==
    (LookAheadScenario /\ pc = "done") =>
        stops = <<[station |-> 2,
                   distance_along_route_miles |-> 150,
                   gallons_purchased |-> 150 \div mpg,
                   cost_usd |-> (150 \div mpg) * 300]>>

CheaperAheadWitness ==
    /\ LookAheadScenario
    /\ pc = "done"
    /\ Len(stops) = 1
    /\ fuel_in_tank_miles = vehicle_range_miles

MandatoryStopScenario ==
    /\ vehicle_range_miles = 500
    /\ route.distance_miles = 600
    /\ Len(candidates) = 1
    /\ candidates[1].dist = 300

\* C5 as stated: in the single-station scenario the plan is one stop at mile
\* 300 whose gallons are (600 - 300) / mpg.
MandatoryStopFullRemainder ==
    (MandatoryStopScenario /\ pc = "done") =>
        /\ Len(stops) = 1
        /\ stops[1].distance_along_route_miles = 300
        /\ stops[1].gallons_purchased * mpg = 600 - 300

\* C5 as amended: in the single-station scenario the plan is one stop at mile
\* 300 whose gallons are (600 - 300 - 200) / mpg, the remaining route less the
\* 200 miles of fuel still in the tank on arrival at the station.
MandatoryStopTopUp ==
    (MandatoryStopScenario /\ pc = "done") =>
        /\ Len(stops) = 1
        /\ stops[1].distance_along_route_miles = 300
        /\ stops[1].gallons_purchased * mpg = (600 - 300) - (500 - 300)

MandatoryStopWitness ==
    /\ MandatoryStopScenario
    /\ pc = "done"
    /\ outcome = "arrived"
    /\ Len(stops) = 1
    /\ candidates[1].price = 400

\* C6: after any interleaving of first calls, the body of load_fuel_stations
\* and the building loop of the spatial index have each run at most once, and
\* every caller was handed the same catalog object.
InitAtMostOnce ==
    /\ body_runs <= 1
    /\ index_builds <= 1
    /\ \A t, u \in Threads :
           (observed[t] # 0 /\ observed[u] # 0) => observed[t] = observed[u]

\* the ~150 budget read with a tenth of slack
ApproxBudget == SampleBudget + SampleBudget \div 10

\* C7: for every polyline length the sampling loop issues at most about 150
\* radius queries.
SamplingBound == queries <= ApproxBudget

\* no candidate lies in (current_pos, current_pos + vehicle_range_miles]
WindowEmpty ==
    \A k \in 1..Len(candidates) :
        ~(current_pos < candidates[k].dist /\ candidates[k].dist <= max_reach)

StrandedNow ==
    /\ pc = "loop"
    /\ current_pos < route_distance
    /\ max_reach < route_distance
    /\ WindowEmpty

\* C8: when the destination is out of range and no candidate lies in the
\* current window, the planner goes no further and records nothing: it
\* returns with the stops it has (or first passes a candidate lying exactly at
\* its position, without moving or buying); with no candidate at all it
\* returns the empty plan.
StrandedSilentPartial ==
    [][ /\ StrandedNow =>
            /\ stops' = stops
            /\ current_pos' = current_pos
            /\ fuel_in_tank_miles' = fuel_in_tank_miles
            /\ \/ pc' = "done" /\ outcome' = "stranded"
               \/ pc' = "fill" /\ candidates[cheapest'].dist = current_pos
        /\ (pc = "start" /\ candidates = <<>>) =>
            (pc' = "done" /\ stops' = <<>>)
        /\ (pc = "fill" /\ current_pos = 0) => stops' = stops ]_vars

StrandedWitness ==
    /\ pc = "done"
    /\ outcome = "stranded"
    /\ WindowEmpty
    /\ Len(stops) >= 1
    /\ current_pos + fuel_in_tank_miles < route_distance

\* C9: no recorded stop lies beyond the destination.
NoStopBeyondDestination ==
    \A k \in 1..Len(stops) :
        stops[k].distance_along_route_miles <= route.distance_miles

NoStopBeyondDestinationWitness ==
    /\ pc = "done"
    /\ stops # <<>>
    /\ \E k \in 1..Len(candidates) : candidates[k].dist > route.distance_miles

\* C10: every selection picks a station that is cheapest among all candidates
\* in (current_pos, current_pos + vehicle_range_miles], the nearer one on a tie.
CheapestReachableSelection ==
    [][ (pc = "loop" /\ pc' = "fill") =>
            \A k \in 1..Len(candidates) :
                (current_pos < candidates[k].dist /\ candidates[k].dist <= max_reach) =>
                    \/ candidates[cheapest'].price < candidates[k].price
                    \/ /\ candidates[cheapest'].price = candidates[k].price
                       /\ candidates[cheapest'].dist <= candidates[k].dist ]_vars

\* C11: the planner ends stranded only if no candidate lies in
\* (current_pos, current_pos + vehicle_range_miles].
StrandedOnlyWhenWindowEmpty ==
    (pc = "done" /\ outcome = "stranded") => WindowEmpty

\* C12: in every state of the planner loop the fuel in the tank is not
\* negative: the vehicle never drives farther than the fuel it holds.
FuelNeverNegative == fuel_in_tank_miles >= 0

ArrivedStep == pc = "loop" /\ pc' = "done" /\ outcome' = "arrived"

\* C13 as stated: the planner leaves the loop as Arrived with
\* current_pos + fuel_in_tank_miles >= route distance, and that exit appends
\* no stop.
ArrivedNeverAppends ==
    [][ ArrivedStep =>
            /\ current_pos + fuel_in_tank_miles >= route.distance_miles
            /\ stops' = stops ]_vars

\* C13 as amended: the planner leaves the loop as Arrived when
\* current_pos + vehicle_range_miles >= route distance.  The exit appends no
\* stop when the fuel in the tank covers the rest of the route (which always
\* leads to that exit) or when no stop was recorded yet; otherwise it appends
\* exactly one stop, at the station of the last recorded stop and at
\* current_pos, buying route distance - current_pos - fuel_in_tank_miles.
ArrivedAppendsOnlyTopUp ==
    [][ /\ ArrivedStep =>
            /\ current_pos + vehicle_range_miles >= route.distance_miles
            /\ IF \/ current_pos + fuel_in_tank_miles >= route.distance_miles
                  \/ stops = <<>>
               THEN stops' = stops
               ELSE /\ Len(stops') = Len(stops) + 1
                    /\ SubSeq(stops', 1, Len(stops)) = stops
                    /\ stops'[Len(stops')].station = stops[Len(stops)].station
                    /\ stops'[Len(stops')].distance_along_route_miles = current_pos
                    /\ stops'[Len(stops')].gallons_purchased * mpg =
                           route.distance_miles - current_pos - fuel_in_tank_miles
        /\ ( /\ pc = "loop"
             /\ current_pos < route.distance_miles
             /\ current_pos + fuel_in_tank_miles >= route.distance_miles ) =>
            (ArrivedStep /\ stops' = stops) ]_vars

ArrivedTopUpWitness ==
    /\ pc = "done"
    /\ outcome = "arrived"
    /\ Len(stops) >= 2
    /\ stops[Len(stops)].station = stops[Len(stops) - 1].station
    /\ stops[Len(stops)].distance_along_route_miles =
           stops[Len(stops) - 1].distance_along_route_miles
    /\ current_pos + fuel_in_tank_miles < route.distance_miles

\* along-route distances of the candidates in the window that are strictly
\* cheaper than the selected station
StrictlyCheaperAhead ==
    {candidates[k].dist : k \in
        {j \in 1..Len(candidates) :
            /\ current_pos < candidates[j].dist
            /\ candidates[j].dist <= current_pos + vehicle_range_miles
            /\ candidates[j].price < candidates[cheapest].price}}

PurchaseTarget ==
    LET d == IF StrictlyCheaperAhead # {}
             THEN (CHOOSE m \in StrictlyCheaperAhead :
                       \A x \in StrictlyCheaperAhead : m <= x) - current_pos
             ELSE vehicle_range_miles
    IN IF d <= route.distance_miles - current_pos
       THEN d ELSE route.distance_miles - current_pos

PurchaseAmount ==
    IF PurchaseTarget - fuel_in_tank_miles > 0
    THEN PurchaseTarget - fuel_in_tank_miles ELSE 0

\* C14: at each selected station the miles bought are max(0, D - fuel in
\* tank), D being the distance to the nearest strictly cheaper candidate in
\* the window, else the full range, capped at the rest of the route; a stop
\* is recorded exactly when the amount exceeds 1e-6, with gallons = amount /
\* mpg and the tank raised by the amount, and otherwise nothing changes.
PurchaseAmountRule ==
    [][ pc = "fill" =>
            IF PurchaseAmount * EpsDenominator > 1
            THEN /\ Len(stops') = Len(stops) + 1
                 /\ SubSeq(stops', 1, Len(stops)) = stops
                 /\ stops'[Len(stops')].station = cheapest
                 /\ stops'[Len(stops')].distance_along_route_miles = current_pos
                 /\ stops'[Len(stops')].gallons_purchased * mpg = PurchaseAmount
                 /\ fuel_in_tank_miles' = fuel_in_tank_miles + PurchaseAmount
            ELSE /\ stops' = stops
                 /\ fuel_in_tank_miles' = fuel_in_tank_miles ]_vars

PurchaseAmountWitness ==
    /\ pc = "loop"
    /\ Len(stops) = 1
    /\ stops[1].station = cheapest
    /\ 0 < fuel_in_tank_miles
    /\ fuel_in_tank_miles < vehicle_range_miles
    /\ current_pos + fuel_in_tank_miles < route.distance_miles
    /\ \E k \in 1..Len(candidates) :
           /\ candidates[k].dist = current_pos + fuel_in_tank_miles
           /\ candidates[k].price < candidates[cheapest].price

\* C15: the planner loop terminates within Len(candidates) + 1 passes of its
\* body.  Every pass that does not end the loop moves the cursor forward
\* (iterations <= idx while running), the cursor stays within the list, every
\* state before the return has a next step, and a loop that ran at least one
\* pass ends Arrived or Stranded (it returns without a pass only when the
\* candidate list is empty or the route distance is not positive).
PlannerTerminates ==
    /\ idx <= Len(candidates)
    /\ pc \in {"loop", "fill"} => iterations <= idx
    /\ iterations <= Len(candidates) + 1
    /\ pc # "done" => ENABLED Next
    /\ pc = "done" =>
           \/ iterations >= 1 /\ outcome \in {"arrived", "stranded"}
           \/ iterations = 0 /\ outcome \in {"loop_exit", "no_candidates"}

PlannerTerminatesWitness ==
    /\ pc = "done"
    /\ Len(candidates) = 3
    /\ iterations = Len(candidates) + 1
    /\ Len(stops) = 3

\* the least distance from the station to a vertex, and the first vertex at
\* that distance
MinVertexDist ==
    CHOOSE m \in {station_dist[k] : k \in 1..Len(station_dist)} :
        \A k \in 1..Len(station_dist) : m <= station_dist[k]
FirstMinVertex ==
    CHOOSE k \in 1..Len(station_dist) :
        /\ station_dist[k] = MinVertexDist
        /\ \A j \in 1..(k - 1) : station_dist[j] # MinVertexDist

\* C16 as stated: for a polyline of two or more vertices the projection
\* returns the least vertex distance as distance_off_route and the cumulative
\* distance of the first vertex at that distance as distance_along_route,
\* also when that vertex is the first of the route.
ProjectionPicksAchievingVertex ==
    (jpc = "done" /\ Len(station_dist) >= 2) =>
        /\ best_off = MinVertexDist
        /\ best_along = cum_dists[FirstMinVertex]

\* C16 as amended: as stated, except that when the first vertex of the route
\* is the first at the least distance, distance_along_route is the cumulative
\* distance of the second vertex (the end of the first segment), not 0.
ProjectionPicksSegmentEnd ==
    (jpc = "done" /\ Len(station_dist) >= 2) =>
        /\ best_off = MinVertexDist
        /\ best_along = cum_dists[IF FirstMinVertex = 1 THEN 2 ELSE FirstMinVertex]

ProjectionWitness ==
    /\ jpc = "done"
    /\ Len(station_dist) >= 3
    /\ FirstMinVertex = 1
    /\ \E k \in 2..Len(station_dist) : station_dist[k] = MinVertexDist
    /\ cum_dists[2] > 0
    /\ best_along = cum_dists[2]

=============================================================================
